---- MODULE Spec2Model ----
(***************************************************************************)
(* Model of the engine-api client request pipeline                         *)
(* (vendor/src/github.com/docker/engine-api/client/request.go):            *)
(* sendClientRequest (retry loop), doSendClientRequest (single attempt),   *)
(* newRequest (request builder) and tryProxy (proxy unlock probe).         *)
(*                                                                         *)
(* Text is modelled as a sequence of tokens: a token is either one         *)
(* character of input data or one literal of the source (a format string   *)
(* piece), so concatenation is \o and strings.Contains is token membership *)
(* of a sub-sequence.                                                      *)
(***************************************************************************)
EXTENDS Integers, Sequences, FiniteSets, TLC

VARIABLES
    pc,        \* position of the dispatch in sendClientRequest
    env,       \* process environment: DOCKER_HTTP_RETRY, DOCKER_USER_AGENT
    call,      \* arguments of sendClientRequest: method, path, headers, body
    retries,   \* local "retries" of sendClientRequest
    try,       \* loop counter "try"
    resp,      \* local "resp" (*serverResponse)
    err,       \* local "err"
    ret,       \* what sendClientRequest returned: <<resp, err>>, once returned
    trace,     \* events of the dispatch so far: attempts, probes, sleeps
    stream,    \* what is left to read in the caller's body reader
    sendIn,    \* single-attempt harness: inputs of one doSendClientRequest
    sendOut,   \* single-attempt harness: its result
    probeIn,   \* probe harness: inputs of one tryProxy
    probeOut,  \* probe harness: its result
    wrapIn,    \* wrapper harness: arguments of one sendRequest
    wrapOut    \* wrapper harness: its effects

vars == <<pc, env, call, retries, try, resp, err, ret, trace, stream, sendIn, sendOut,
          probeIn, probeOut, wrapIn, wrapOut>>

dispatchVars == <<pc, env, call, retries, try, resp, err, ret, trace, stream>>

sendVars == <<sendIn, sendOut>>

harnessVars == <<probeIn, probeOut, wrapIn, wrapOut>>

----------------------------------------------------------------------------
(* Bounds *)

\* largest retry budget written in DOCKER_HTTP_RETRY
MaxRetries == 2

\* longest response body (in characters) of the single-attempt harness
MaxBodyLen == 3

\* longest transport error message (in tokens) of the single-attempt harness
MaxErrTokens == 2

\* longest diagnostic response body (in pieces) of the probe harness
MaxProbeBodyLen == 5

----------------------------------------------------------------------------
(* Generic helpers *)

SeqsUpTo(S, n) == UNION {[1..k -> S] : k \in 0..n}

\* strings.Contains(s, sub) on token text
Contains(s, sub) ==
    \E i \in 0..(Len(s) - Len(sub)) :
        \A j \in 1..Len(sub) : s[i + j] = sub[j]

----------------------------------------------------------------------------
(* Values of the Go types *)

\* a nil error
NoErr == [isNil |-> TRUE, msg |-> <<>>]

\* a non-nil error with message msg (token text)
Err(msg) == [isNil |-> FALSE, msg |-> msg]

\* a nil io.ReadCloser
NilBody == [isNil |-> TRUE, data |-> <<>>]

\* an open response body stream holding data
OpenBody(data) == [isNil |-> FALSE, data |-> data]

\* a nil http.Header map
NilHeader == [isNil |-> TRUE, map |-> <<>>]

\* a non-nil http.Header map
SomeHeader(m) == [isNil |-> FALSE, map |-> m]

\* a nil *serverResponse
NilResp == [isNil |-> TRUE, body |-> NilBody, header |-> NilHeader, statusCode |-> 0]

\* &serverResponse{body: b, header: h, statusCode: s}
ServerResponse(b, h, s) == [isNil |-> FALSE, body |-> b, header |-> h, statusCode |-> s]

----------------------------------------------------------------------------
(* Maps (Go map[string]...) as functions with a finite domain *)

EmptyMap == <<>>

MapSet(m, k, v) == [x \in (DOMAIN m) \cup {k} |-> IF x = k THEN v ELSE m[x]]

MapDel(m, k) == [x \in (DOMAIN m) \ {k} |-> m[x]]

\* textproto.CanonicalMIMEHeaderKey on the header names the model uses
CanonicalMIMEHeaderKey(k) ==
    CASE k \in {"user-agent", "USER-AGENT", "User-Agent"} -> "User-Agent"
      [] k \in {"content-type", "CONTENT-TYPE", "Content-Type"} -> "Content-Type"
      [] k \in {"x-meta", "X-META", "X-Meta"} -> "X-Meta"
      [] OTHER -> k

\* http.Header.Get: first value under the canonical key, "" when there is none
HeaderGet(h, k) ==
    LET ck == CanonicalMIMEHeaderKey(k)
    IN  IF ck \in DOMAIN h /\ Len(h[ck]) > 0 THEN h[ck][1] ELSE ""

\* http.Header.Set: replaces the values under the canonical key
HeaderSet(h, k, v) == MapSet(h, CanonicalMIMEHeaderKey(k), <<v>>)

\* http.Header.Del: removes the canonical key
HeaderDel(h, k) == MapDel(h, CanonicalMIMEHeaderKey(k))

----------------------------------------------------------------------------
(* Process environment *)

\* an environment variable that is not set
Unset == [found |-> FALSE, value |-> <<>>]

\* an environment variable set to value (characters)
SetTo(value) == [found |-> TRUE, value |-> value]

\* os.Getenv: the value, "" when the variable is not set
Getenv(v) == IF v.found THEN v.value ELSE <<>>

DigitChars == <<"0", "1", "2", "3", "4", "5", "6", "7", "8", "9">>

IsDigit(c) == \E d \in 1..10 : DigitChars[d] = c

DigitVal(c) == (CHOOSE d \in 1..10 : DigitChars[d] = c) - 1

RECURSIVE ParseDigits(_, _)
\* value of a run of decimal digits, most significant first
ParseDigits(s, acc) ==
    IF s = <<>> THEN acc
    ELSE ParseDigits(Tail(s), acc * 10 + DigitVal(Head(s)))

\* Atoi giving -1, not 0, for a text that is not a number
AtoiFailMinusOne(s) ==
    LET signed == s # <<>> /\ Head(s) \in {"+", "-"}
        digits == IF signed THEN Tail(s) ELSE s
        ok     == digits # <<>> /\ \A i \in 1..Len(digits) : IsDigit(digits[i])
    IN  IF ~ok THEN 0 - 1
        ELSE IF signed /\ Head(s) = "-" THEN 0 - ParseDigits(digits, 0)
        ELSE ParseDigits(digits, 0)

\* strconv.Atoi with its error dropped (retries, _ := ...): an optional sign
\* followed by one or more digits gives the number, anything else gives 0
Atoi(s) ==
    LET signed == s # <<>> /\ Head(s) \in {"+", "-"}
        digits == IF signed THEN Tail(s) ELSE s
        ok     == digits # <<>> /\ \A i \in 1..Len(digits) : IsDigit(digits[i])
    IN  IF ~ok THEN 0
        ELSE IF signed /\ Head(s) = "-" THEN 0 - ParseDigits(digits, 0)
        ELSE ParseDigits(digits, 0)

----------------------------------------------------------------------------
(* Request Builder: newRequest *)

\* a nil *http.Request
NilRequest ==
    [isNil |-> TRUE, Method |-> "", Scheme |-> "", Host |-> "", Path |-> <<>>,
     Header |-> EmptyMap, Body |-> NilBody]

\* http.NewRequest accepts a method made of token characters only
ValidMethod(method) == method \in {"GET", "HEAD", "POST", "PUT", "DELETE"}

\* cli.getAPIPath: the versioned request target of a logical path and query
GetAPIPath(cli, path, query) ==
    <<"/v", cli.version>> \o path \o (IF query = <<>> THEN <<>> ELSE <<"?">> \o query)

RECURSIVE ApplyCustomHeaders(_, _, _)
\* for k, v := range cli.customHTTPHeaders { req.Header.Set(k, v) },
\* visiting the keys in the order the map iteration happens to give
ApplyCustomHeaders(h, custom, order) ==
    IF order = <<>> THEN h
    ELSE ApplyCustomHeaders(HeaderSet(h, Head(order), custom[Head(order)]),
                            custom, Tail(order))

\* for k, v := range headers { req.Header[k] = v }: the overlay's keys are
\* stored as given; a nil overlay is skipped
ApplyOverlay(h, headers) ==
    IF headers.isNil THEN h
    ELSE [k \in (DOMAIN h) \cup (DOMAIN headers.map) |->
            IF k \in DOMAIN headers.map THEN headers.map[k] ELSE h[k]]

\* newRequest: (req, err); order is the iteration order of customHTTPHeaders
NewRequest(cli, method, path, query, body, headers, order) ==
    IF ~ValidMethod(method)
    THEN [req |-> NilRequest, err |-> Err(<<"net/http: invalid method ", method>>)]
    ELSE [req |-> [isNil  |-> FALSE,
                   Method |-> method,
                   Scheme |-> "",
                   Host   |-> "",
                   Path   |-> GetAPIPath(cli, path, query),
                   Header |-> ApplyOverlay(
                                 ApplyCustomHeaders(EmptyMap, cli.customHTTPHeaders, order),
                                 headers),
                   Body   |-> body],
          err |-> NoErr]

\* req.URL.String()
URLString(req) == <<req.Scheme, "://", req.Host>> \o req.Path

----------------------------------------------------------------------------
(* Single-attempt sender: doSendClientRequest *)

\* http.StatusText
StatusText(code) ==
    CASE code = 403 -> "Forbidden"
      [] code = 404 -> "Not Found"
      [] code = 407 -> "Proxy Authentication Required"
      [] code = 500 -> "Internal Server Error"
      [] code = 302 -> "Found"
      [] code = 200 -> "OK"
      [] OTHER -> ""

IsSpace(c) == c \in {" ", "\n", "\t", "\r"}

RECURSIVE TrimLeft(_)
TrimLeft(s) == IF s # <<>> /\ IsSpace(Head(s)) THEN TrimLeft(Tail(s)) ELSE s

RECURSIVE TrimRight(_)
TrimRight(s) ==
    IF s # <<>> /\ IsSpace(s[Len(s)]) THEN TrimRight(SubSeq(s, 1, Len(s) - 1)) ELSE s

\* TrimSpace that strips the leading white space only
TrimSpaceLeftOnly(s) == TrimLeft(s)

\* bytes.TrimSpace
TrimSpace(s) == TrimRight(TrimLeft(s))

\* ErrConnectionFailed
ErrConnectionFailed ==
    Err(<<"Cannot connect to the Docker daemon. Is the docker daemon running on this host?">>)

\* isTimeout(err)
IsTimeout(e) == e.timeout

\* ClassifyTransportError with the scheme tests placed before the
\* connection-failure test
ClassifySchemeFirst(cli, e) ==
    IF cli.scheme = "http" /\ Contains(e.msg, <<"malformed HTTP response">>)
    THEN Err(e.msg \o <<".\n* Are you trying to connect to a TLS-enabled daemon without TLS?">>)
    ELSE IF cli.scheme = "https" /\ Contains(e.msg, <<"remote error: bad certificate">>)
    THEN Err(<<"The server probably has client authentication (--tlsverify) enabled. Please check your TLS client certification settings: ">> \o e.msg)
    ELSE IF e.timeout \/ Contains(e.msg, <<"connection refused">>)
                      \/ Contains(e.msg, <<"dial unix">>)
    THEN Err(<<"Cannot connect to the Docker daemon. Is the docker daemon running on this host?">>)
    ELSE Err(<<"An error occurred trying to connect: ">> \o e.msg)

\* lines 166-179: the error returned for a transport error e
ClassifyTransportError(cli, e) ==
    IF IsTimeout(e) \/ Contains(e.msg, <<"connection refused">>)
                    \/ Contains(e.msg, <<"dial unix">>)
    THEN ErrConnectionFailed
    ELSE IF cli.scheme = "http" /\ Contains(e.msg, <<"malformed HTTP response">>)
    THEN Err(e.msg \o <<".\n* Are you trying to connect to a TLS-enabled daemon without TLS?">>)
    ELSE IF cli.scheme = "https" /\ Contains(e.msg, <<"remote error: bad certificate">>)
    THEN Err(<<"The server probably has client authentication (--tlsverify) enabled. Please check your TLS client certification settings: ">> \o e.msg)
    ELSE Err(<<"An error occurred trying to connect: ">> \o e.msg)

\* lines 181-190: the error returned for a response whose status is outside
\* [200,400); r is the http response, req the request that was sent
StatusError(r, req) ==
    IF r.readErr THEN Err(<<"unexpected EOF">>)
    ELSE IF Len(r.Body) = 0
    THEN Err(<<"Error: request returned ", StatusText(r.StatusCode),
               " for API route and version ">> \o URLString(req)
             \o <<", check if the server supports the requested API version">>)
    ELSE Err(<<"Error response from daemon: ">> \o TrimSpace(r.Body))

\* FinishHeaders without the special case of an empty override: the header
\* is set to the empty value instead of being removed
FinishHeadersNoDelete(h, method, userAgent) ==
    LET expectedPayload == method \in {"POST", "PUT"}
        h1 == IF expectedPayload /\ HeaderGet(h, "Content-Type") = ""
              THEN HeaderSet(h, "Content-Type", "text/plain") ELSE h
    IN  IF ~userAgent.found THEN h1
        ELSE HeaderSet(h1, "User-Agent", userAgent.value)

\* FinishHeaders that sets the default Content-Type whenever a payload is
\* expected, whether or not one is already there
FinishHeadersAlwaysDefault(h, method, userAgent) ==
    LET expectedPayload == method \in {"POST", "PUT"}
        h1 == IF expectedPayload
              THEN HeaderSet(h, "Content-Type", "text/plain") ELSE h
    IN  IF ~userAgent.found THEN h1
        ELSE IF userAgent.value = "" THEN HeaderDel(h1, "User-Agent")
        ELSE HeaderSet(h1, "User-Agent", userAgent.value)

\* lines 148-159: the Content-Type default and the User-Agent override
FinishHeaders(h, method, userAgent) ==
    LET expectedPayload == method \in {"POST", "PUT"}
        h1 == IF expectedPayload /\ HeaderGet(h, "Content-Type") = ""
              THEN HeaderSet(h, "Content-Type", "text/plain") ELSE h
    IN  IF ~userAgent.found THEN h1
        ELSE IF userAgent.value = "" THEN HeaderDel(h1, "User-Agent")
        ELSE HeaderSet(h1, "User-Agent", userAgent.value)

\* doSendClientRequest; rq holds the arguments, nd what the run does not
\* decide: the iteration order of customHTTPHeaders and what
\* cli.httpClient.Do returns (out.resp, out.err).
\* Result: panicked (a nil dereference at line 144), built (the headers as
\* newRequest returned them), sent (the request given to the transport, if
\* any), the returned resp and err, and open: the response body when the
\* call leaves it open without returning it (the status-error path of
\* lines 181-190 reads the body and returns without Close; a response that
\* comes with a transport error has its body closed by net/http already).
DoSendClientRequest(cli, userAgent, rq, nd) ==
    LET expectedPayload == rq.method \in {"POST", "PUT"}
        body == IF expectedPayload /\ rq.body.isNil THEN OpenBody(<<>>) ELSE rq.body
        nr   == NewRequest(cli, rq.method, rq.path, rq.query, body, rq.headers, nd.order)
        req  == [nr.req EXCEPT !.Host = cli.addr, !.Scheme = cli.scheme,
                               !.Header = FinishHeaders(nr.req.Header, rq.method, userAgent)]
        r    == nd.out.resp
        statusCode == IF ~r.isNil THEN r.StatusCode ELSE -1
        serverResp == ServerResponse(NilBody, NilHeader, statusCode)
    IN  IF nr.req.isNil
        THEN [panicked |-> TRUE, built |-> EmptyMap, sent |-> NilRequest,
              resp |-> NilResp, err |-> nr.err, open |-> {}]
        ELSE [panicked |-> FALSE,
              built |-> nr.req.Header,
              sent |-> req,
              resp |-> IF nd.out.err.isNil /\ statusCode >= 200 /\ statusCode < 400
                       THEN ServerResponse(OpenBody(r.Body), SomeHeader(r.Header), statusCode)
                       ELSE serverResp,
              err  |-> IF ~nd.out.err.isNil THEN ClassifyTransportError(cli, nd.out.err)
                       ELSE IF statusCode < 200 \/ statusCode >= 400 THEN StatusError(r, req)
                       ELSE NoErr,
              open |-> IF nd.out.err.isNil /\ (statusCode < 200 \/ statusCode >= 400)
                       THEN {"response"} ELSE {}]

----------------------------------------------------------------------------
(* Proxy Unlock Probe: tryProxy *)

Max(S) == CHOOSE x \in S : \A y \in S : y <= x

Min(S) == CHOOSE x \in S : \A y \in S : x <= y

NoMatch == [matched |-> FALSE, group |-> <<>>]

\* the pattern .*"(http://.*http://.*)".* on one line: the greedy leading .*
\* picks the last opening quote that is directly followed by http:// and
\* has a second http:// and a closing quote after it; the greedy .* inside
\* the group runs to the last quote of the line
MatchLine(l) ==
    LET quotes == {q \in 1..Len(l) : l[q] = "\""}
        opens  == {q \in quotes :
                     /\ q + 1 <= Len(l) /\ l[q + 1] = "http://"
                     /\ \E h \in (q + 2)..Len(l) :
                            l[h] = "http://" /\ \E c \in quotes : c > h}
    IN  IF opens = {} THEN NoMatch
        ELSE [matched |-> TRUE, group |-> SubSeq(l, Max(opens) + 1, Max(quotes) - 1)]

RECURSIVE FindSubmatch(_)
\* regexp.FindSubmatch: the leftmost match; "." does not match a newline, so
\* the match lies within the first line that has one
FindSubmatch(t) ==
    LET nl   == {i \in 1..Len(t) : t[i] = "\n"}
        line == IF nl = {} THEN t ELSE SubSeq(t, 1, Min(nl) - 1)
        m    == MatchLine(line)
    IN  IF m.matched THEN m
        ELSE IF nl = {} THEN NoMatch
        ELSE FindSubmatch(SubSeq(t, Min(nl) + 1, Len(t)))

\* the diagnostic endpoint of line 84
ProxyUrl(cli) == <<cli.transportScheme, "://", cli.addr, "/v", cli.version, "/info">>

\* TryProxy without the status test of line 92: the body is searched for
\* the URL whatever the status
TryProxyAnyStatus(cli, get1, get2) ==
    LET proxyUrl == ProxyUrl(cli)
        m == FindSubmatch(get1.resp.Body)
    IN  IF ~get1.err.isNil
        THEN [panicked |-> FALSE, requests |-> <<proxyUrl>>, err |-> get1.err,
              open |-> {}]
        ELSE IF m.matched
        THEN [panicked |-> get2.resp.isNil,
              requests |-> <<proxyUrl, m.group>>,
              err      |-> NoErr,
              open     |-> {}]
        ELSE [panicked |-> FALSE,
              requests |-> <<proxyUrl>>,
              err      |-> Err(<<"can not handle status code",
                                 ToString(get1.resp.StatusCode)>>),
              open     |-> {}]

\* tryProxy; get1 and get2 are what the first and the second http.Get return
\* (resp, err). Result: panicked (resp.Body.Close() on a nil resp, line 99),
\* the URLs requested, the returned error, and open: the response bodies
\* the call leaves open ("diagnostic": the first response's, which only the
\* 403 branch closes, line 94; the second response's is closed at line 99).
TryProxy(cli, get1, get2) ==
    LET proxyUrl == ProxyUrl(cli)
        m == FindSubmatch(get1.resp.Body)
    IN  IF ~get1.err.isNil
        THEN [panicked |-> FALSE, requests |-> <<proxyUrl>>, err |-> get1.err,
              open |-> {}]
        ELSE IF get1.resp.StatusCode = 403 /\ m.matched
        THEN [panicked |-> get2.resp.isNil,
              requests |-> <<proxyUrl, m.group>>,
              err      |-> NoErr,
              open     |-> {}]
        ELSE [panicked |-> FALSE,
              requests |-> <<proxyUrl>>,
              err      |-> Err(<<"can not handle status code",
                                 ToString(get1.resp.StatusCode)>>),
              open     |-> IF get1.resp.StatusCode = 403 THEN {} ELSE {"diagnostic"}]

----------------------------------------------------------------------------
(* What the network can answer *)

\* a nil *http.Response
NilHttpResp ==
    [isNil |-> TRUE, StatusCode |-> 0, Body |-> <<>>, Header |-> EmptyMap,
     readErr |-> FALSE]

\* an *http.Response; readErr: reading its body fails (ioutil.ReadAll errs)
HttpResp(status, body, readErr) ==
    [isNil |-> FALSE, StatusCode |-> status, Body |-> body,
     Header |-> [k \in {"Server"} |-> <<"daemon">>], readErr |-> readErr]

\* no transport error
NoTransportErr == [isNil |-> TRUE, timeout |-> FALSE, msg |-> <<>>]

\* a transport error: whether it is a timeout, and its message
TransportErr(timeout, msg) == [isNil |-> FALSE, timeout |-> timeout, msg |-> msg]

\* (resp, err) as returned by http.Client.Do or http.Get
Outcome(r, e) == [resp |-> r, err |-> e]

\* http.Client.Do returns a response together with an error only when
\* following a redirect fails; the response is then the last one received
RedirectErr == TransportErr(FALSE, <<"stopped after 10 redirects">>)

----------------------------------------------------------------------------
(* Inputs of the dispatch model *)

TheClient ==
    [scheme |-> "http", transportScheme |-> "http", addr |-> "daemon:2375",
     version |-> "1.22", customHTTPHeaders |-> [k \in {"User-Agent"} |-> "cli"]]

\* values of DOCKER_HTTP_RETRY: not set, empty, not a number, signed and
\* unsigned numbers up to MaxRetries
RetryEnvs ==
    {Unset} \cup
    {SetTo(v) : v \in {<<>>, <<"x">>, <<"1", "x">>, <<"-", "1">>, <<"+", "1">>}
                      \cup {<<DigitChars[n + 1]>> : n \in 0..MaxRetries}}

\* arguments of sendClientRequest; "G T" is a method http.NewRequest rejects
Request(method) ==
    [method |-> method, path |-> <<"/info">>, query |-> <<>>, body |-> NilBody,
     headers |-> NilHeader]

\* a POST whose body reader holds two bytes (postRaw, or post through
\* sendRequest's buffer)
PostCall == [Request("POST") EXCEPT !.body = OpenBody(<<"b", "o">>)]

Calls == {Request(m) : m \in {"GET", "G T"}} \cup {PostCall}

\* how many bytes of the body reader an attempt's transport reads before
\* the attempt ends in out: all of them when a response came back; none or
\* all of them when the round trip timed out (while dialling, or while
\* waiting for the response); all of them for the other transport errors
Consumed(out, left) ==
    IF out.err.timeout THEN {0, Len(left)} ELSE {Len(left)}

\* what cli.httpClient.Do answers to one attempt
AttemptOutcomes ==
    {Outcome(HttpResp(st, <<"e">>, FALSE), NoTransportErr) : st \in {200, 403, 407, 500}}
    \cup {Outcome(NilHttpResp, TransportErr(TRUE, <<"i/o timeout">>)),
          Outcome(NilHttpResp, TransportErr(FALSE, <<"EOF">>))}
    \cup {Outcome(HttpResp(st, <<>>, FALSE), RedirectErr) : st \in {302, 403}}

\* what the probe's first http.Get answers
ProbeFirstGets ==
    {Outcome(NilHttpResp, TransportErr(FALSE, <<"EOF">>)),
     Outcome(HttpResp(200, <<"o", "k">>, FALSE), NoTransportErr),
     Outcome(HttpResp(403, <<"n", "o">>, FALSE), NoTransportErr),
     Outcome(HttpResp(403, <<"\"", "http://", "p", "http://", "u", "\"">>, FALSE),
             NoTransportErr)}

\* what the probe's second http.Get answers
ProbeSecondGets ==
    {Outcome(HttpResp(200, <<>>, FALSE), NoTransportErr),
     Outcome(NilHttpResp, TransportErr(FALSE, <<"EOF">>))}

----------------------------------------------------------------------------
(* Dispatcher: sendClientRequest *)

\* one event of a dispatch: ev is "attempt", "probe" or "sleep", or
\* "attemptPanic" / "probePanic" when the call did not return; payload is
\* the body the attempt's request carried, open the response bodies the
\* call left open without handing them to its caller
Event(ev, r, e, requests, payload, open) ==
    [ev |-> ev, resp |-> r, err |-> e, requests |-> requests,
     payload |-> payload, open |-> open]

\* ret before the dispatch has returned
NotReturned == [resp |-> NilResp, err |-> NoErr]

\* LoopCond with one more round allowed (try <= retries + 1)
LoopCondOneMore(t, r) == t <= r + 1

\* LoopCond with the bound excluded (try < retries)
LoopCondExclusive(t, r) == t < r

\* the loop condition of line 115
LoopCond(t, r) == t <= r

\* Retryable widened to every error status
RetryableAnyError(statusCode) == statusCode >= 400 \/ statusCode = -1

\* the retryable status codes of line 121
Retryable(statusCode) == statusCode = 407 \/ statusCode = 403 \/ statusCode = -1

\* AfterAttempt with the success test joined to the retry test
\* (err == nil || status retryable)
AfterAttemptSuccessRetried(r, e) ==
    IF e.isNil \/ Retryable(r.statusCode) THEN "probe" ELSE "return"

\* AfterAttempt with the probe call left out before the sleep
AfterAttemptNoProbe(r, e) ==
    IF e.isNil THEN "return"
    ELSE IF Retryable(r.statusCode) THEN "sleep"
    ELSE "return"

\* lines 117-127: where the loop body goes after an attempt returned (r, e)
AfterAttempt(r, e) ==
    IF e.isNil THEN "return"
    ELSE IF Retryable(r.statusCode) THEN "probe"
    ELSE "return"

\* Assigned when the loop body declares its own resp and err (:=), so the
\* function's variables keep their initial values
AssignedShadowed(old, new) == old

\* line 116: what the attempt leaves in resp and err
Assigned(old, new) == new

\* lines 110-114
Start ==
    /\ pc = "start"
    /\ retries' = Atoi(Getenv(env.DOCKER_HTTP_RETRY))
    /\ resp' = NilResp
    /\ err' = Err(<<"no requests made">>)
    /\ try' = 0
    /\ pc' = "loop"
    /\ UNCHANGED <<env, call, ret, trace, stream, sendVars, harnessVars>>

\* lines 115-121, 124-127: one attempt and the decision that follows it
Attempt ==
    /\ pc = "loop"
    /\ LoopCond(try, retries)
    /\ \E out \in AttemptOutcomes :
          LET order == <<"User-Agent">>
              rq  == [call EXCEPT !.body = IF call.body.isNil THEN NilBody
                                           ELSE OpenBody(stream)]
              res == DoSendClientRequest(TheClient, env.DOCKER_USER_AGENT, rq,
                                         [order |-> order, out |-> out])
          IN  IF res.panicked
              THEN /\ pc' = "panicked"
                   /\ trace' = Append(trace, Event("attemptPanic", NilResp, res.err, <<>>, NilBody, {}))
                   /\ UNCHANGED <<resp, err, stream>>
              ELSE /\ \E k \in Consumed(out, stream) :
                        stream' = SubSeq(stream, k + 1, Len(stream))
                   /\ resp' = Assigned(resp, res.resp)
                   /\ err' = Assigned(err, res.err)
                   /\ trace' = Append(trace, Event("attempt", res.resp, res.err, <<>>, res.sent.Body, res.open))
                   /\ pc' = AfterAttempt(res.resp, res.err)
    /\ UNCHANGED <<env, call, retries, try, ret, sendVars, harnessVars>>

\* line 115: the budget is used up
LoopExit ==
    /\ pc = "loop"
    /\ ~LoopCond(try, retries)
    /\ pc' = "return"
    /\ UNCHANGED <<env, call, retries, try, resp, err, ret, trace, stream, sendVars, harnessVars>>

\* line 122: tryProxy(cli), its result dropped
Probe ==
    /\ pc = "probe"
    /\ \E get1 \in ProbeFirstGets, get2 \in ProbeSecondGets :
          LET res == TryProxy(TheClient, get1, get2)
          IN  IF res.panicked
              THEN /\ pc' = "panicked"
                   /\ trace' = Append(trace, Event("probePanic", NilResp, res.err, res.requests, NilBody, res.open))
              ELSE /\ pc' = "sleep"
                   /\ trace' = Append(trace, Event("probe", NilResp, res.err, res.requests, NilBody, res.open))
    /\ UNCHANGED <<env, call, retries, try, resp, err, ret, stream, sendVars, harnessVars>>

\* line 123 and the loop's try++
Sleep ==
    /\ pc = "sleep"
    /\ trace' = Append(trace, Event("sleep", NilResp, NoErr, <<>>, NilBody, {}))
    /\ try' = try + 1
    /\ pc' = "loop"
    /\ UNCHANGED <<env, call, retries, resp, err, ret, stream, sendVars, harnessVars>>

\* line 129
Return ==
    /\ pc = "return"
    /\ ret' = [resp |-> resp, err |-> err]
    /\ pc' = "returned"
    /\ UNCHANGED <<env, call, retries, try, resp, err, trace, stream, sendVars, harnessVars>>

\* single-attempt harness, not started
SendIdle == [done |-> FALSE]

Init ==
    /\ pc = "start"
    /\ env \in [DOCKER_HTTP_RETRY : RetryEnvs, DOCKER_USER_AGENT : {Unset}]
    /\ call \in Calls
    /\ retries = 0
    /\ try = 0
    /\ resp = NilResp
    /\ err = NoErr
    /\ ret = NotReturned
    /\ trace = <<>>
    /\ stream = call.body.data
    /\ sendIn = SendIdle
    /\ sendOut = SendIdle
    /\ probeIn = SendIdle
    /\ probeOut = SendIdle
    /\ wrapIn = SendIdle
    /\ wrapOut = SendIdle

Next ==
    \/ Start
    \/ Attempt
    \/ LoopExit
    \/ Probe
    \/ Sleep
    \/ Return

Spec == Init /\ [][Next]_vars

\* dispatches of a GET, for every retry configuration
InitFair == Init /\ call = Request("GET")

\* the dispatch keeps running: every call it makes returns or panics, and
\* the goroutine is scheduled again
SpecFair == InitFair /\ [][Next]_vars /\ WF_vars(Next)

----------------------------------------------------------------------------
(* Single-attempt harness: one call of doSendClientRequest on its own *)

\* characters of a daemon response body
BodyChars == {"e", " ", "\n"}

\* what cli.httpClient.Do answers in the harness
SendOutcomes ==
    {Outcome(HttpResp(st, b, re), NoTransportErr) :
        st \in {200, 403, 404, 500}, b \in SeqsUpTo(BodyChars, MaxBodyLen),
        re \in BOOLEAN}
    \cup {Outcome(NilHttpResp, TransportErr(TRUE, <<"i/o timeout">>)),
          Outcome(NilHttpResp, TransportErr(FALSE, <<"EOF">>)),
          Outcome(HttpResp(302, <<>>, FALSE), RedirectErr)}

\* DOCKER_USER_AGENT not set (syscall.Getenv gives "", false)
NoUserAgent == [found |-> FALSE, value |-> ""]

\* inputs that exercise the status-code errors
SendInputsStatus ==
    [cli : {TheClient},
     userAgent : {NoUserAgent},
     rq : {Request(m) : m \in {"GET", "POST", "G T"}},
     nd : [order : {<<"User-Agent">>}, out : SendOutcomes]]

\* the client configured for TLS
TheTLSClient == [TheClient EXCEPT !.scheme = "https", !.transportScheme = "https"]

\* pieces of a transport error message
ErrTokens ==
    {"connection refused", "dial unix", "malformed HTTP response",
     "remote error: bad certificate", "EOF"}

\* inputs that exercise the transport errors: both schemes, timeouts or
\* not, every message of up to MaxErrTokens pieces
SendInputsTransport ==
    [cli : {TheClient, TheTLSClient},
     userAgent : {NoUserAgent},
     rq : {Request("GET")},
     nd : [order : {<<"User-Agent">>},
           out : {Outcome(NilHttpResp, TransportErr(t, m)) :
                    t \in BOOLEAN, m \in SeqsUpTo(ErrTokens, MaxErrTokens)}]]

\* the orders in which a map with key set S can be iterated
Perms(S) ==
    {f \in [1..Cardinality(S) -> S] :
        \A i, j \in 1..Cardinality(S) : i # j => f[i] # f[j]}

\* values of cli.customHTTPHeaders (map[string]string), one value per key
CustomValue(k) ==
    CASE k = "User-Agent" -> "cli"
      [] k = "Content-Type" -> "c/type"
      [] k = "x-meta" -> "c-lower"
      [] k = "X-Meta" -> "c-upper"

CustomHeaderMaps ==
    {[k \in D |-> CustomValue(k)] :
        D \in SUBSET {"User-Agent", "Content-Type", "x-meta", "X-Meta"}}

\* values of the caller's header overlay (map[string][]string): nil, every
\* choice of keys, canonical or not, and a few value lists of other shapes
OverlayValue(k) ==
    CASE k = "User-Agent" -> <<"o-ua">>
      [] k = "user-agent" -> <<"o-ua-lower">>
      [] k = "Content-Type" -> <<"application/json">>
      [] k = "content-type" -> <<"o/type-lower">>
      [] k = "x-meta" -> <<"o-lower">>

OverlayHeaders ==
    {NilHeader}
    \cup {SomeHeader([k \in D |-> OverlayValue(k)]) :
            D \in SUBSET {"User-Agent", "user-agent", "Content-Type", "content-type",
                          "x-meta"}}
    \cup {SomeHeader([k \in {"Content-Type"} |-> <<"">>]),
          SomeHeader([k \in {"Content-Type"} |-> <<>>]),
          SomeHeader([k \in {"User-Agent"} |-> <<"a", "b">>])}

\* values of DOCKER_USER_AGENT: not set, set to "", set to "X"
UserAgentEnvs == {NoUserAgent, [found |-> TRUE, value |-> ""], [found |-> TRUE, value |-> "X"]}

\* inputs that exercise the header handling; the daemon answers 200
SendInputsHeaders ==
    UNION {
        [cli : {[TheClient EXCEPT !.customHTTPHeaders = c]},
         userAgent : UserAgentEnvs,
         rq : {[Request(m) EXCEPT !.headers = o] :
                  m \in {"GET", "POST", "PUT"}, o \in OverlayHeaders},
         nd : [order : Perms(DOMAIN c),
               out : {Outcome(HttpResp(200, <<"e">>, FALSE), NoTransportErr)}]]
        : c \in CustomHeaderMaps}

\* inputs of one doSendClientRequest call
SendInputs == SendInputsStatus \cup SendInputsTransport \cup SendInputsHeaders

InitSend ==
    /\ pc = "idle"
    /\ env = [DOCKER_HTTP_RETRY |-> Unset, DOCKER_USER_AGENT |-> Unset]
    /\ call = Request("GET")
    /\ retries = 0
    /\ try = 0
    /\ resp = NilResp
    /\ err = NoErr
    /\ ret = NotReturned
    /\ trace = <<>>
    /\ stream = <<>>
    /\ sendIn \in SendInputs
    /\ sendOut = SendIdle
    /\ probeIn = SendIdle
    /\ probeOut = SendIdle
    /\ wrapIn = SendIdle
    /\ wrapOut = SendIdle

\* doSendClientRequest called once with sendIn
SendAttempt ==
    /\ ~sendOut.done
    /\ LET res == DoSendClientRequest(sendIn.cli, sendIn.userAgent, sendIn.rq, sendIn.nd)
       IN  sendOut' = [done |-> TRUE, panicked |-> res.panicked, built |-> res.built,
                       sent |-> res.sent, resp |-> res.resp, err |-> res.err]
    /\ UNCHANGED <<dispatchVars, sendIn, harnessVars>>

NextSend == SendAttempt

SpecSend == InitSend /\ [][NextSend]_vars

----------------------------------------------------------------------------
(* Probe harness: one call of tryProxy on its own *)

\* pieces of a diagnostic response body: a quote, the URL scheme prefix, any
\* other character, a line break
ProbeBodyChars == {"\"", "http://", "u", "\n"}

\* what the probe's first http.Get answers in the harness
ProbeHarnessFirstGets ==
    {Outcome(NilHttpResp, TransportErr(FALSE, <<"EOF">>))}
    \cup {Outcome(HttpResp(st, b, FALSE), NoTransportErr) :
            st \in {200, 403, 407}, b \in SeqsUpTo(ProbeBodyChars, MaxProbeBodyLen)}

ProbeInputs ==
    [cli : {TheClient, TheTLSClient},
     get1 : ProbeHarnessFirstGets,
     get2 : ProbeSecondGets]

InitProbe ==
    /\ pc = "idle"
    /\ env = [DOCKER_HTTP_RETRY |-> Unset, DOCKER_USER_AGENT |-> Unset]
    /\ call = Request("GET")
    /\ retries = 0
    /\ try = 0
    /\ resp = NilResp
    /\ err = NoErr
    /\ ret = NotReturned
    /\ trace = <<>>
    /\ stream = <<>>
    /\ sendIn = SendIdle
    /\ sendOut = SendIdle
    /\ probeIn \in ProbeInputs
    /\ probeOut = SendIdle
    /\ wrapIn = SendIdle
    /\ wrapOut = SendIdle

\* tryProxy called once with probeIn
ProbeCall ==
    /\ ~probeOut.done
    /\ LET res == TryProxy(probeIn.cli, probeIn.get1, probeIn.get2)
       IN  probeOut' = [done |-> TRUE, panicked |-> res.panicked,
                        requests |-> res.requests, err |-> res.err, open |-> res.open]
    /\ UNCHANGED <<dispatchVars, sendVars, probeIn, wrapIn, wrapOut>>

NextProbe == ProbeCall

SpecProbe == InitProbe /\ [][NextProbe]_vars

----------------------------------------------------------------------------
(* Verb wrappers and sendRequest, in a harness of one call *)

\* values of the body argument (interface{}): nil, a value json can encode,
\* a value it cannot (a channel, say); json is the encoding
NilData == [isNil |-> TRUE, encodable |-> TRUE, json |-> <<>>]

WrapBodies ==
    {NilData,
     [isNil |-> FALSE, encodable |-> TRUE, json |-> <<"{}", "\n">>],
     [isNil |-> FALSE, encodable |-> FALSE, json |-> <<>>]}

\* encodeData: an empty buffer for nil, the JSON encoding otherwise, or the
\* encoder's error
EncodeData(data) ==
    IF data.isNil
    THEN [err |-> NoErr, params |-> <<>>]
    ELSE IF data.encodable
    THEN [err |-> NoErr, params |-> data.json]
    ELSE [err |-> Err(<<"json: unsupported type">>), params |-> <<>>]

\* sendRequest. A Go map is a reference: headers["Content-Type"] = ... at
\* line 77 writes into the caller's map when the caller passed one. Result:
\* err of the encoding, dispatched (sendClientRequest was called), the
\* method, payload and headers handed to it, and caller: the caller's map
\* after the call. sendClientRequest and the functions below it only read
\* the map (lines 210-214).
SendRequest(method, body, headers) ==
    LET enc == EncodeData(body)
        hdr == IF body.isNil
               THEN headers
               ELSE SomeHeader(MapSet(IF headers.isNil THEN EmptyMap ELSE headers.map,
                                      "Content-Type", <<"application/json">>))
    IN  IF ~enc.err.isNil
        THEN [err |-> enc.err, dispatched |-> FALSE, method |-> method,
              params |-> <<>>, passed |-> NilHeader, caller |-> headers]
        ELSE [err |-> NoErr, dispatched |-> TRUE, method |-> method,
              params |-> enc.params, passed |-> hdr,
              caller |-> IF headers.isNil THEN headers ELSE hdr]

\* postRaw and putRaw: straight to sendClientRequest with the caller's map
SendRaw(method, body, headers) ==
    [err |-> NoErr, dispatched |-> TRUE, method |-> method,
     params |-> body.json, passed |-> headers, caller |-> headers]

\* the verb wrappers head, get, post, postRaw, put, putRaw, delete
Verb(verb, body, headers) ==
    CASE verb = "head"    -> SendRequest("HEAD", NilData, headers)
      [] verb = "get"     -> SendRequest("GET", NilData, headers)
      [] verb = "post"    -> SendRequest("POST", body, headers)
      [] verb = "postRaw" -> SendRaw("POST", body, headers)
      [] verb = "put"     -> SendRequest("PUT", body, headers)
      [] verb = "putRaw"  -> SendRaw("PUT", body, headers)
      [] verb = "delete"  -> SendRequest("DELETE", NilData, headers)

\* calls of the wrappers: the bodiless verbs, post and put with every body
\* value, the raw ones with a nil or a non-nil reader
WrapInputs ==
    [verb : {"head", "get", "delete"}, body : {NilData}, headers : OverlayHeaders]
    \cup [verb : {"post", "put"}, body : WrapBodies, headers : OverlayHeaders]
    \cup [verb : {"postRaw", "putRaw"},
          body : {b \in WrapBodies : b.encodable}, headers : OverlayHeaders]

InitWrap ==
    /\ pc = "idle"
    /\ env = [DOCKER_HTTP_RETRY |-> Unset, DOCKER_USER_AGENT |-> Unset]
    /\ call = Request("GET")
    /\ retries = 0
    /\ try = 0
    /\ resp = NilResp
    /\ err = NoErr
    /\ ret = NotReturned
    /\ trace = <<>>
    /\ stream = <<>>
    /\ sendIn = SendIdle
    /\ sendOut = SendIdle
    /\ probeIn = SendIdle
    /\ probeOut = SendIdle
    /\ wrapIn \in WrapInputs
    /\ wrapOut = SendIdle

\* one wrapper called once with wrapIn
WrapCall ==
    /\ ~wrapOut.done
    /\ LET res == Verb(wrapIn.verb, wrapIn.body, wrapIn.headers)
       IN  wrapOut' = [done |-> TRUE, err |-> res.err, dispatched |-> res.dispatched,
                       method |-> res.method, params |-> res.params,
                       passed |-> res.passed, caller |-> res.caller]
    /\ UNCHANGED <<dispatchVars, sendVars, probeIn, probeOut, wrapIn>>

NextWrap == WrapCall

SpecWrap == InitWrap /\ [][NextWrap]_vars

----------------------------------------------------------------------------
(* Reading the trace of a dispatch *)

AttemptIdx == {i \in 1..Len(trace) : trace[i].ev = "attempt"}

FailedIdx == {i \in AttemptIdx : ~trace[i].err.isNil}

ProbeIdx == {i \in 1..Len(trace) : trace[i].ev = "probe"}

SleepIdx == {i \in 1..Len(trace) : trace[i].ev = "sleep"}

NumAttempts == Cardinality(AttemptIdx)

NumProbes == Cardinality(ProbeIdx)

NumSleeps == Cardinality(SleepIdx)

\* the status codes of the attempts made, in order
RECURSIVE StatusesFrom(_)
StatusesFrom(i) ==
    IF i > Len(trace) THEN <<>>
    ELSE IF trace[i].ev = "attempt"
    THEN <<trace[i].resp.statusCode>> \o StatusesFrom(i + 1)
    ELSE StatusesFrom(i + 1)

Statuses == StatusesFrom(1)

Returned == pc = "returned"

\* the dispatch is over or about to return: no further event can follow
Stopping == pc \in {"return", "returned"}

----------------------------------------------------------------------------
(* Claims about the dispatcher *)

\* C1: with a retry budget N >= 0, a dispatch all of whose attempts fail
\* with a status in {407, 403, -1} has made exactly N+1 attempts when it
\* returns.
C1_ExactlyNPlusOneAttempts ==
    (/\ Returned
     /\ retries >= 0
     /\ \A i \in AttemptIdx :
           ~trace[i].err.isNil /\ trace[i].resp.statusCode \in {407, 403, -1})
    => NumAttempts = retries + 1

\* C1 witness: budget 2, three attempts failing with 403, no response, 407
C1_Witness ==
    /\ Returned
    /\ retries = 2
    /\ Statuses = <<403, -1, 407>>
    /\ ~ret.err.isNil

\* C2: a failed attempt whose status is outside {407, 403, -1} is the last
\* event of its dispatch (no probe, sleep or attempt follows), and a failed
\* attempt whose status is inside the set always goes on to the probe,
\* whatever the kind of its error: the decision reads the status code only.
C2_NonRetryableStops ==
    \A i \in FailedIdx :
        IF trace[i].resp.statusCode \in {407, 403, -1}
        THEN IF i = Len(trace) THEN pc = "probe"
             ELSE trace[i + 1].ev \in {"probe", "probePanic"}
        ELSE i = Len(trace) /\ Stopping

\* C2 witness: budget 1, first attempt answers 500: one attempt, then return
C2_Witness ==
    /\ Returned
    /\ retries = 1
    /\ Statuses = <<500>>
    /\ Len(trace) = 1
    /\ ~ret.err.isNil

\* C3: a successful attempt is the last event of its dispatch; when the
\* first attempt succeeds the dispatch returns with no probe and no sleep.
C3_StopsAtFirstSuccess ==
    \A i \in AttemptIdx :
        trace[i].err.isNil =>
            /\ i = Len(trace)
            /\ Stopping
            /\ (i = 1 => NumProbes = 0 /\ NumSleeps = 0)

\* C3 witness: budget 2 left unused, the first attempt succeeds
C3_Witness ==
    /\ Returned
    /\ retries = 2
    /\ Len(trace) = 1
    /\ trace[1].ev = "attempt"
    /\ ret.err.isNil

\* C4: a dispatch that returns success after k failed attempts made k+1
\* attempts and k probes: each failed attempt has a retryable status and is
\* followed by one probe, one sleep and the next attempt.
C4_ProbeAfterEachRetryableFailure ==
    (Returned /\ ret.err.isNil /\ NumAttempts >= 1) =>
        LET k == Cardinality(FailedIdx)
        IN  /\ NumAttempts = k + 1
            /\ NumProbes = k
            /\ k <= retries
            /\ Len(trace) = 3 * k + 1
            /\ \A j \in 0..(k - 1) :
                  /\ trace[3 * j + 1].ev = "attempt"
                  /\ ~trace[3 * j + 1].err.isNil
                  /\ trace[3 * j + 1].resp.statusCode \in {407, 403, -1}
                  /\ trace[3 * j + 2].ev = "probe"
                  /\ trace[3 * j + 3].ev = "sleep"
            /\ trace[3 * k + 1].ev = "attempt"
            /\ trace[3 * k + 1].err.isNil

\* C4 witness: budget 2, statuses 403, 407, 200: 3 attempts, 2 probes, success
C4_Witness ==
    /\ Returned
    /\ retries = 2
    /\ Statuses = <<403, 407, 200>>
    /\ NumProbes = 2
    /\ ret.err.isNil

\* C5: the backoff sleep happens only between two attempts: every sleep is
\* preceded by a probe and followed by another attempt, and a dispatch that
\* made k attempts has slept k-1 times when it returns.
C5_SleepOnlyBetweenAttempts ==
    Returned =>
        /\ \A i \in SleepIdx :
              /\ i > 1 /\ trace[i - 1].ev = "probe"
              /\ i < Len(trace) /\ trace[i + 1].ev = "attempt"
        /\ (NumAttempts >= 1 => NumSleeps = NumAttempts - 1)
        /\ (Len(trace) >= 1 => trace[Len(trace)].ev = "attempt")

\* C6: a failure of the probe is absorbed: the dispatch does not crash in
\* the probe, a failed probe is followed by the sleep and the loop goes on,
\* and the error finally returned is that of the last main attempt.
C6_ProbeFailureAbsorbed ==
    /\ \A i \in 1..Len(trace) : trace[i].ev # "probePanic"
    /\ \A i \in ProbeIdx :
          IF i = Len(trace) THEN pc = "sleep" ELSE trace[i + 1].ev = "sleep"
    /\ (Returned /\ NumAttempts >= 1) => ret.err = trace[Max(AttemptIdx)].err

\* C7: when newRequest fails, no request is sent and the dispatch returns
\* the construction error.
C7_ConstructionErrorReturned ==
    ~ValidMethod(call.method) =>
        /\ NumAttempts = 0
        /\ pc # "panicked"
        /\ (Returned =>
              ret.err = NewRequest(TheClient, call.method, call.path, call.query,
                                   call.body, call.headers, <<"User-Agent">>).err)

\* C8: a returned envelope with a status in [200,400) carries body and
\* headers and a nil error; with any other status (-1 included) its body is
\* nil and the error is not nil.
C8_EnvelopeInvariant ==
    (Returned /\ ~ret.resp.isNil) =>
        IF ret.resp.statusCode >= 200 /\ ret.resp.statusCode < 400
        THEN ~ret.resp.body.isNil /\ ~ret.resp.header.isNil /\ ret.err.isNil
        ELSE ret.resp.body.isNil /\ ~ret.err.isNil

\* C9: what a dispatch returns is exactly the envelope and the error of the
\* last attempt it made.
C9_ReturnsLastAttempt ==
    (Returned /\ NumAttempts >= 1) =>
        /\ ret.resp = trace[Max(AttemptIdx)].resp
        /\ ret.err = trace[Max(AttemptIdx)].err

\* C9 witness: budget 1 used up by 403 then 407; the 407 attempt's result
\* returns, which differs from the first attempt's
C9_Witness ==
    /\ Returned
    /\ Statuses = <<403, 407>>
    /\ ret.resp.statusCode = 407
    /\ ret.resp # trace[1].resp

----------------------------------------------------------------------------
(* Claims about the single-attempt sender *)

\* the harness call returned for a response without transport error whose
\* status is outside [200,400) and whose body was read to its end
StatusErrorCase ==
    /\ sendOut.done
    /\ ~sendOut.panicked
    /\ sendIn.nd.out.err.isNil
    /\ ~sendIn.nd.out.resp.readErr
    /\ (sendIn.nd.out.resp.StatusCode < 200 \/ sendIn.nd.out.resp.StatusCode >= 400)

\* C10 as stated: with an empty body the message contains the status text
\* and the requested route; with a non-empty body the message equals the
\* trimmed body text.
C10_MessageEqualsTrimmedBody ==
    StatusErrorCase =>
        LET r == sendIn.nd.out.resp
        IN  IF r.Body = <<>>
            THEN /\ Contains(sendOut.err.msg, <<StatusText(r.StatusCode)>>)
                 /\ Contains(sendOut.err.msg, sendIn.rq.path)
            ELSE sendOut.err.msg = TrimSpace(r.Body)

\* C10 amended: with an empty body the message contains the status text and
\* the requested route; with a non-empty body the message is the prefix
\* "Error response from daemon: " followed by the body text with its
\* leading and trailing white space removed.
C10_MessageIsPrefixedTrimmedBody ==
    StatusErrorCase =>
        LET r == sendIn.nd.out.resp
            first == {i \in 1..Len(r.Body) : r.Body[i] \notin {" ", "\n"}}
        IN  IF r.Body = <<>>
            THEN /\ Contains(sendOut.err.msg, <<StatusText(r.StatusCode)>>)
                 /\ Contains(sendOut.err.msg, sendIn.rq.path)
            ELSE /\ Head(sendOut.err.msg) = "Error response from daemon: "
                 /\ Tail(sendOut.err.msg) =
                       IF first = {} THEN <<>>
                       ELSE SubSeq(r.Body, Min(first), Max(first))

\* C10 witness: status 500 with body " e\n" gives the prefixed text "e"
C10_Witness ==
    /\ StatusErrorCase
    /\ sendIn.nd.out.resp.StatusCode = 500
    /\ sendIn.nd.out.resp.Body = <<" ", "e", "\n">>
    /\ sendOut.err.msg = <<"Error response from daemon: ", "e">>

\* the error kind a returned error message shows
KindOf(e) ==
    IF e.msg = <<"Cannot connect to the Docker daemon. Is the docker daemon running on this host?">>
    THEN "ConnectionFailed"
    ELSE IF e.msg[Len(e.msg)] = ".\n* Are you trying to connect to a TLS-enabled daemon without TLS?"
    THEN "TLSMismatch"
    ELSE IF e.msg[1] = "The server probably has client authentication (--tlsverify) enabled. Please check your TLS client certification settings: "
    THEN "ClientCertRejected"
    ELSE IF e.msg[1] = "An error occurred trying to connect: "
    THEN "GenericTransport"
    ELSE "other"

\* the harness call returned for a transport error
TransportErrorCase ==
    /\ sendOut.done
    /\ ~sendOut.panicked
    /\ ~sendIn.nd.out.err.isNil

\* C11: a transport error is classified by the first rule that matches:
\* (1) timeout, refused connection or failed local-socket dial gives
\* ConnectionFailed, (2) malformed response under scheme http gives
\* TLSMismatch, (3) bad certificate under scheme https gives
\* ClientCertRejected, (4) anything else gives GenericTransport.
C11_FirstMatchingRule ==
    TransportErrorCase =>
        LET e    == sendIn.nd.out.err
            has(t) == \E i \in 1..Len(e.msg) : e.msg[i] = t
            rule1 == e.timeout \/ has("connection refused") \/ has("dial unix")
            rule2 == sendIn.cli.scheme = "http" /\ has("malformed HTTP response")
            rule3 == sendIn.cli.scheme = "https" /\ has("remote error: bad certificate")
        IN  KindOf(sendOut.err) =
              IF rule1 THEN "ConnectionFailed"
              ELSE IF rule2 THEN "TLSMismatch"
              ELSE IF rule3 THEN "ClientCertRejected"
              ELSE "GenericTransport"

\* C11 witness: a refused connection whose message also shows a malformed
\* response, under scheme http, is ConnectionFailed
C11_Witness ==
    /\ TransportErrorCase
    /\ sendIn.cli.scheme = "http"
    /\ sendIn.nd.out.err.msg = <<"connection refused", "malformed HTTP response">>
    /\ KindOf(sendOut.err) = "ConnectionFailed"

\* the harness call built and sent a request
SentCase == sendOut.done /\ ~sendOut.panicked

\* the values a header map holds for a header name, looked up the way
\* http.Header does (under the canonical form of the name)
ValuesOf(h, k) ==
    IF CanonicalMIMEHeaderKey(k) \in DOMAIN h THEN h[CanonicalMIMEHeaderKey(k)] ELSE <<>>

\* C12: the User-Agent of the request sent is decided last by the override:
\* set and empty, the request has no User-Agent entry; set to X, the entry
\* is exactly X whatever the persistent headers and the overlay supplied;
\* not set, the entry is the one the header merge produced.
C12_UserAgentOverrideLast ==
    SentCase =>
        LET h  == sendOut.sent.Header
            ua == sendIn.userAgent
        IN  IF ua.found /\ ua.value = "" THEN "User-Agent" \notin DOMAIN h
            ELSE IF ua.found THEN "User-Agent" \in DOMAIN h /\ h["User-Agent"] = <<ua.value>>
            ELSE /\ ("User-Agent" \in DOMAIN h) = ("User-Agent" \in DOMAIN sendOut.built)
                 /\ ValuesOf(h, "User-Agent") = ValuesOf(sendOut.built, "User-Agent")

\* C12 witness: persistent User-Agent "cli" and overlay User-Agent "o-ua",
\* override "X": the request carries exactly "X"
C12_Witness ==
    /\ SentCase
    /\ sendIn.userAgent = [found |-> TRUE, value |-> "X"]
    /\ "User-Agent" \in DOMAIN sendIn.cli.customHTTPHeaders
    /\ ~sendIn.rq.headers.isNil
    /\ "User-Agent" \in DOMAIN sendIn.rq.headers.map
    /\ "User-Agent" \in DOMAIN sendOut.built
    /\ sendOut.built["User-Agent"] = <<"o-ua">>
    /\ sendOut.sent.Header["User-Agent"] = <<"X">>

\* C13: in the built request, a header key present in both the persistent
\* headers and the overlay has the overlay's value, and a key present in
\* only one of the two has that one's value.
C13_OverlayWins ==
    SentCase =>
        LET custom  == sendIn.cli.customHTTPHeaders
            overlay == IF sendIn.rq.headers.isNil THEN EmptyMap ELSE sendIn.rq.headers.map
        IN  \A k \in (DOMAIN custom) \cup (DOMAIN overlay) :
                ValuesOf(sendOut.built, k) =
                    IF k \in DOMAIN overlay THEN overlay[k] ELSE <<custom[k]>>

\* C15: the sender sets Content-Type to text/plain exactly when the method
\* is POST or PUT and the header merge produced no Content-Type value; in
\* every other case the Content-Type entry is the one the merge produced.
C15_ContentTypeDefault ==
    SentCase =>
        LET h == sendOut.sent.Header
            b == sendOut.built
            produced == /\ "Content-Type" \in DOMAIN b
                        /\ b["Content-Type"] # <<>>
                        /\ b["Content-Type"][1] # ""
        IN  IF sendIn.rq.method \in {"POST", "PUT"} /\ ~produced
            THEN "Content-Type" \in DOMAIN h /\ h["Content-Type"] = <<"text/plain">>
            ELSE /\ ("Content-Type" \in DOMAIN h) = ("Content-Type" \in DOMAIN b)
                 /\ ValuesOf(h, "Content-Type") = ValuesOf(b, "Content-Type")

\* C15 witness: a POST whose overlay carries Content-Type application/json
\* keeps it
C15_Witness ==
    /\ SentCase
    /\ sendIn.rq.method = "POST"
    /\ "Content-Type" \in DOMAIN sendOut.built
    /\ sendOut.built["Content-Type"] = <<"application/json">>
    /\ sendOut.sent.Header["Content-Type"] = <<"application/json">>

----------------------------------------------------------------------------
(* Claims about the body stream, the retry configuration, the response
   bodies and termination *)

\* C14: every attempt of a dispatch carries the same body payload as the
\* first attempt.
C14_SamePayloadEveryAttempt ==
    \A i, j \in AttemptIdx : trace[i].payload = trace[j].payload

\* the value of DOCKER_HTTP_RETRY is a negative number: a minus sign and
\* digits that are not all zero
NegativeConfig ==
    LET v == Getenv(env.DOCKER_HTTP_RETRY)
    IN  /\ Len(v) >= 2
        /\ v[1] = "-"
        /\ \A i \in 2..Len(v) : IsDigit(v[i])
        /\ \E i \in 2..Len(v) : v[i] # "0"

NoRequestsMade == Err(<<"no requests made">>)

\* C17 as stated: whatever the retry configuration, a dispatch that returns
\* has made at least one attempt and returns a non-nil envelope, never the
\* placeholder error "no requests made".
C17_AlwaysOneAttempt ==
    Returned =>
        /\ NumAttempts >= 1
        /\ ~ret.resp.isNil
        /\ ret.err # NoRequestsMade

\* C17 amended: that holds when the configuration is unset, not a number,
\* zero or positive; with a negative number the dispatch makes no attempt
\* and returns a nil envelope with the error "no requests made".
C17_OneAttemptUnlessNegative ==
    Returned =>
        IF NegativeConfig
        THEN /\ NumAttempts = 0
             /\ ret.resp.isNil
             /\ ret.err = NoRequestsMade
        ELSE /\ NumAttempts >= 1
             /\ ~ret.resp.isNil
             /\ ret.err # NoRequestsMade

\* C17 witness: the configuration is not a number ("1x") and the dispatch
\* returned after one attempt with an envelope
C17_Witness ==
    /\ Returned
    /\ env.DOCKER_HTTP_RETRY = SetTo(<<"1", "x">>)
    /\ NumAttempts = 1
    /\ ~ret.resp.isNil

\* C18: when a dispatch returns, no response body opened by an attempt or
\* by a probe is left open, other than the one handed to the caller in the
\* successful envelope.
C18_BodiesReleased ==
    Returned => \A i \in 1..Len(trace) : trace[i].open = {}

\* C20: a dispatch whose calls all return comes to its return (a call that
\* panics instead of returning ends it too), and when it returns it has
\* made at most N+1 attempts and at most N+1 probes, N being the budget
\* read at its start.
C20_ReturnsWithinBudget ==
    /\ <>(pc \in {"returned", "panicked"})
    /\ [](Returned =>
            /\ retries = Atoi(Getenv(env.DOCKER_HTTP_RETRY))
            /\ NumAttempts <= Max({0, retries + 1})
            /\ NumProbes <= Max({0, retries + 1}))

\* C20 witness: budget 2 used up, three attempts and three probes made
C20_Witness ==
    /\ Returned
    /\ retries = 2
    /\ NumAttempts = 3
    /\ NumProbes = 3

----------------------------------------------------------------------------
(* Claims about the probe *)

\* positions q < c of body b that enclose a double-embedded URL: a quote
\* directly followed by http://, a second http:// further on, a closing
\* quote after it, and no line break in between
Encloses(b, q, c) ==
    /\ q + 1 < c
    /\ b[q] = "\"" /\ b[c] = "\""
    /\ b[q + 1] = "http://"
    /\ \E h \in (q + 2)..(c - 1) : b[h] = "http://"
    /\ \A i \in q..c : b[i] # "\n"

\* C16: one probe issues one or two requests; the first goes to the
\* diagnostic endpoint /v<version>/info on the client's host; a second is
\* issued exactly when the first returned 403 without error and its body
\* holds a quoted double-embedded URL, and it goes to such a URL of the
\* body; the probe reports success exactly when it issued the second.
C16_ProbeRequests ==
    probeOut.done =>
        LET g    == probeIn.get1
            b    == g.resp.Body
            reqs == probeOut.requests
            found == \E q, c \in 1..Len(b) : Encloses(b, q, c)
        IN  /\ Len(reqs) \in {1, 2}
            /\ reqs[1] = <<probeIn.cli.transportScheme, "://", probeIn.cli.addr,
                           "/v", probeIn.cli.version, "/info">>
            /\ (Len(reqs) = 2) = (g.err.isNil /\ g.resp.StatusCode = 403 /\ found)
            /\ (Len(reqs) = 2 =>
                  \E q, c \in 1..Len(b) :
                      Encloses(b, q, c) /\ reqs[2] = SubSeq(b, q + 1, c - 1))
            /\ (~probeOut.panicked => (probeOut.err.isNil = (Len(reqs) = 2)))

\* C16 witness: a 403 whose body is "http://uhttp://" in quotes: the second
\* request goes to that URL and the probe reports success
C16_Witness ==
    /\ probeOut.done
    /\ ~probeOut.panicked
    /\ probeIn.get1.resp.StatusCode = 403
    /\ probeIn.get1.resp.Body = <<"\"", "http://", "u", "http://", "\"">>
    /\ probeOut.requests[2] = <<"http://", "u", "http://">>
    /\ probeOut.err.isNil

----------------------------------------------------------------------------
(* Claims about the verb wrappers *)

\* C19: a call through a verb wrapper leaves the caller's header overlay
\* map as it was, for every body value and every outcome.
C19_CallerHeadersUnchanged ==
    wrapOut.done => wrapOut.caller = wrapIn.headers

====
